---- MODULE Spec2Model ----
(***************************************************************************)
(* Points & Rewards Ledger of travel-assistant-mcp.                        *)
(*                                                                         *)
(* The ledger code (awardPoints, calculateLevel, checkUnlockedRewards,     *)
(* getUserProgress, getNextReward) is the TypeScript found in              *)
(* src/src/db/migrations/0000_sour_namor.sql from line 77 on; the tool     *)
(* handlers and ensureUserExists are in src/src/tools/*.ts.                *)
(*                                                                         *)
(* Every `await` on a database statement is one atomic step: D1 executes   *)
(* one statement at a time, and between two awaits of one request the      *)
(* statements of other requests may run.                                   *)
(***************************************************************************)
EXTENDS Integers, Sequences, FiniteSets, TLC

\* ---------------------------------------------------------------- bounds
MaxCalls == 3
NumUsers == 2

Calls == 1..MaxCalls
\* user ids are strings the client chooses.  The ids here are 'a', 'usera',
\* 'userusera', ...: id k + 1 is 'user' followed by id k
UserIds == 1..NumUsers
\* the user id of a request that names no user: userId missing, '' or the
\* default 'anonymous'
Anonymous == 0
\* every key the users table can be asked about
AllUserIds == UserIds \cup {Anonymous}
\* point values passed to awardPoints: 5 is what get_weather passes, 50 and
\* 110 reach one and two reward thresholds in a single award
PointValues == {5, 50, 110}

\* ---------------------------------------------------------------- state
VARIABLES
    users,          \* table `users`: id -> row, or NoUser when there is no row
    achievements,   \* table `achievements`: rows in insertion order
    calls           \* the requests: position and locals of each invocation

vars == <<users, achievements, calls>>

NoUser == [totalPoints |-> -1, level |-> -1, email |-> -1]

\* Emails: k stands for the address whose local part is user id k.
\* ensureUserExists: email: `${userId}@example.com`
EnsureEmail(userId) == userId

\* awardPoints: email: `user${userId}@example.com`
AwardEmail(userId) == userId + 1

\* CREATE UNIQUE INDEX users_email_unique ON users (email): a row of another
\* id already holds the address
EmailTaken(email, userId) ==
    \E v \in AllUserIds \ {userId} : users[v] # NoUser /\ users[v].email = email

\* the totalPoints stored for u, 0 when u has no row
StoredPoints(u) == IF users[u] = NoUser THEN 0 ELSE users[u].totalPoints

\* the test of the handlers skipped
AnyUser(userId) == TRUE

\* if (userId && userId !== 'anonymous')
NamedUser(userId) == userId # Anonymous

\* ---------------------------------------------------------------- pure code
\* calculateLevel: Math.floor(totalPoints / 50) + 1
calculateLevel(totalPoints) == (totalPoints \div 50) + 1

\* JavaScript `x || d` on a number column: 0 and null are falsy
OrDefault(x, d) == IF x = 0 THEN d ELSE x

\* const rewardThresholds = [...] in checkUnlockedRewards
rewardThresholds ==
    << [points |-> 50,  type |-> "restaurant_recommendations", name |-> "Restaurant Finder"],
       [points |-> 100, type |-> "hidden_gems",                name |-> "Hidden Gems Discovery"],
       [points |-> 200, type |-> "food_specialties",           name |-> "Local Food Specialties"],
       [points |-> 300, type |-> "photography_spots",          name |-> "Photography Spots"] >>

NumRewards == Len(rewardThresholds)

\* if (oldTotal < reward.points && newTotal >= reward.points)
JustUnlocked(reward, oldTotal, newTotal) ==
    oldTotal < reward.points /\ newTotal >= reward.points

\* the for loop of checkUnlockedRewards between two awaits: the first index
\* >= i whose reward passes the crossing test, NumRewards + 1 when the loop
\* runs to its end
RECURSIVE NextCrossed(_, _, _)
NextCrossed(i, oldTotal, newTotal) ==
    IF i > NumRewards THEN NumRewards + 1
    ELSE IF JustUnlocked(rewardThresholds[i], oldTotal, newTotal) THEN i
    ELSE NextCrossed(i + 1, oldTotal, newTotal)

\* the existence check is left out
NoExistenceCheck(userId, type) == FALSE

\* db.select().from(achievements)
\*   .where(eq(achievements.userId, userId))
\*   .where(eq(achievements.achievementType, reward.type)).get()
\* drizzle's where() assigns config.where, so the second call replaces the
\* first: the statement filters on achievement_type only.
ExistingAchievement(userId, type) ==
    \E k \in 1..Len(achievements) : achievements[k].achievementType = type

\* ---------------------------------------------------------------- requests
\* no value of getUserProgress yet
NoProgress ==
    [points |-> -1, level |-> -1, achievements |-> <<>>,
     nextReward |-> [name |-> "", pointsNeeded |-> -1]]

\* no response of a tool handler yet
NoResponse ==
    [success |-> FALSE, error |-> "", progress |-> NoProgress,
     requiredPoints |-> -1, currentPoints |-> -1, pointsNeeded |-> -1,
     rewardContent |-> "", warning |-> "",
     gamification |-> FALSE, pointsAwarded |-> 0]

IdleCall ==
    [pc |-> "idle", userId |-> 0, points |-> 0,
     oldTotal |-> 0, newTotal |-> 0, oldLevel |-> 0, newLevel |-> 0,
     levelsGained |-> 0, idx |-> 0, newlyUnlocked |-> <<>>, created |-> FALSE,
     rowsAtStart |-> 0, totalAtStart |-> 0, failedAt |-> "", primary |-> FALSE,
     tool |-> "", rewardType |-> "", user |-> NoUser, response |-> NoResponse]

Init ==
    /\ users = [u \in AllUserIds |-> NoUser]
    /\ achievements = <<>>
    /\ calls = [c \in Calls |-> IdleCall]

\* A tool handler is invoked.  ensure = TRUE is a handler that calls
\* ensureUserExists before awardPoints (get_weather, add_expense, ...),
\* ensure = FALSE one that calls awardPoints directly (find_events,
\* save_event, get_place_details, ...).  Requests are numbered in the order
\* they arrive.  rowsAtStart is history, not program state: the number of
\* achievement rows that existed when the request arrived.
ToolInvoke(c, userId, points, ensure) ==
    /\ calls[c].pc = "idle"
    /\ IF c = 1 THEN TRUE ELSE calls[c - 1].pc # "idle"
    /\ calls' = [calls EXCEPT ![c] =
                    [@ EXCEPT !.pc = IF ensure THEN "ensure_select" ELSE "award_select",
                              !.userId = userId, !.points = points,
                              !.rowsAtStart = Len(achievements)]]
    /\ UNCHANGED <<users, achievements>>

\* what a handler does after ensureUserExists: add_expense and
\* create_itinerary insert their row, the others call awardPoints
AfterEnsure(call) ==
    IF call.tool \in {"add_expense", "create_itinerary"}
    THEN "primary_insert" ELSE "award_select"

\* ensureUserExists: const existingUser = await db.select()...get()
EnsureSelectUser(c) ==
    /\ calls[c].pc = "ensure_select"
    /\ calls' = [calls EXCEPT ![c].pc =
                    IF users[calls[c].userId] # NoUser THEN AfterEnsure(calls[c])
                    ELSE "ensure_insert"]
    /\ UNCHANGED <<users, achievements>>

\* ensureUserExists: await db.insert(users).values({..., totalPoints: 0,
\* level: 1}); the primary key rejects a second row of the same id, the
\* unique index a second row of the same email, and the function throws
EnsureInsertUser(c) ==
    /\ calls[c].pc = "ensure_insert"
    /\ IF /\ users[calls[c].userId] = NoUser
          /\ ~EmailTaken(EnsureEmail(calls[c].userId), calls[c].userId)
       THEN /\ users' = [users EXCEPT ![calls[c].userId] =
                            [totalPoints |-> 0, level |-> 1,
                             email |-> EnsureEmail(calls[c].userId)]]
            /\ calls' = [calls EXCEPT ![c].pc = AfterEnsure(calls[c])]
       ELSE /\ calls' = [calls EXCEPT ![c].pc = "ensure_failed"]
            /\ UNCHANGED users
    /\ UNCHANGED achievements

\* the award overwrites the total instead of adding to it
NewTotalOverwrite(oldTotal, points) == points

\* const newTotal = oldTotal + points
NewTotal(oldTotal, points) == oldTotal + points

\* awardPoints: const currentUser = await ...select().from(users)...get()
\* and the synchronous code up to the next await
AwardSelectUser(c) ==
    /\ calls[c].pc = "award_select"
    /\ LET currentUser == users[calls[c].userId]
           oldTotal == OrDefault(currentUser.totalPoints, 0)
           newTotal == NewTotal(oldTotal, calls[c].points)
           oldLevel == OrDefault(currentUser.level, 1)
           newLevel == calculateLevel(newTotal)
       IN  IF currentUser = NoUser
           THEN calls' = [calls EXCEPT ![c].pc = "award_insert"]
           ELSE calls' = [calls EXCEPT ![c] =
                    [@ EXCEPT !.pc = "award_update",
                              !.oldTotal = oldTotal, !.newTotal = newTotal,
                              !.oldLevel = oldLevel, !.newLevel = newLevel,
                              !.levelsGained = newLevel - oldLevel]]
    /\ UNCHANGED <<users, achievements>>

\* level written by the insert of awardPoints: `level: 1`
NewUserLevel(points) == 1

\* awardPoints, !currentUser branch: await drizzleDb.insert(users).values(
\* {..., totalPoints: points, level: 1}); return {newTotal: points,
\* levelsGained: 0, unlockedRewards: []}.  A row of that id inserted in the
\* meantime, or a row of another id with the same email, makes the insert
\* fail and awardPoints throw.
AwardInsertUser(c) ==
    /\ calls[c].pc = "award_insert"
    /\ IF /\ users[calls[c].userId] = NoUser
          /\ ~EmailTaken(AwardEmail(calls[c].userId), calls[c].userId)
       THEN /\ users' = [users EXCEPT ![calls[c].userId] =
                            [totalPoints |-> calls[c].points,
                             level |-> NewUserLevel(calls[c].points),
                             email |-> AwardEmail(calls[c].userId)]]
            /\ calls' = [calls EXCEPT ![c] =
                    [@ EXCEPT !.pc = "done", !.newTotal = calls[c].points,
                              !.levelsGained = 0, !.newlyUnlocked = <<>>,
                              !.created = TRUE]]
       ELSE /\ calls' = [calls EXCEPT ![c].pc = "award_failed"]
            /\ UNCHANGED users
    /\ UNCHANGED achievements

\* row written by the update of awardPoints
UpdatedUser(row, newTotal, newLevel) ==
    [row EXCEPT !.totalPoints = newTotal, !.level = newLevel]

\* awardPoints: await drizzleDb.update(users).set({totalPoints: newTotal,
\* level: newLevel, ...}).where(eq(users.id, userId)), then the call of
\* checkUnlockedRewards up to its first await
AwardUpdateUser(c) ==
    /\ calls[c].pc = "award_update"
    /\ users' = [users EXCEPT ![calls[c].userId] =
                    UpdatedUser(@, calls[c].newTotal, calls[c].newLevel)]
    /\ LET i == NextCrossed(1, calls[c].oldTotal, calls[c].newTotal)
       IN  calls' = [calls EXCEPT ![c] =
                [@ EXCEPT !.pc = IF i > NumRewards THEN "done" ELSE "check_select",
                          !.idx = i, !.newlyUnlocked = <<>>]]
    /\ UNCHANGED achievements

\* checkUnlockedRewards: const existingAchievement = await db.select()...
CheckSelectAchievement(c) ==
    /\ calls[c].pc = "check_select"
    /\ LET reward == rewardThresholds[calls[c].idx]
           i == NextCrossed(calls[c].idx + 1, calls[c].oldTotal, calls[c].newTotal)
       IN  IF ~ExistingAchievement(calls[c].userId, reward.type)
           THEN calls' = [calls EXCEPT ![c].pc = "check_insert"]
           ELSE calls' = [calls EXCEPT ![c] =
                    [@ EXCEPT !.pc = IF i > NumRewards THEN "done" ELSE "check_select",
                              !.idx = i]]
    /\ UNCHANGED <<users, achievements>>

\* row inserted by checkUnlockedRewards; id: crypto.randomUUID() is a value
\* no other row has, here the request and the reward it is inserting
NewAchievement(c, userId, reward) ==
    [id |-> <<c, reward.type>>, userId |-> userId,
     achievementType |-> reward.type, pointsRequired |-> reward.points]

\* checkUnlockedRewards: await db.insert(achievements).values({...});
\* newlyUnlocked.push(reward.name); and the loop up to the next await or
\* the return
CheckInsertAchievement(c) ==
    /\ calls[c].pc = "check_insert"
    /\ LET reward == rewardThresholds[calls[c].idx]
           i == NextCrossed(calls[c].idx + 1, calls[c].oldTotal, calls[c].newTotal)
       IN  /\ achievements' = Append(achievements,
                                     NewAchievement(c, calls[c].userId, reward))
           /\ calls' = [calls EXCEPT ![c] =
                    [@ EXCEPT !.pc = IF i > NumRewards THEN "done" ELSE "check_select",
                              !.idx = i,
                              !.newlyUnlocked = Append(@, reward.name)]]
    /\ UNCHANGED users

\* ---------------------------------------------------------------- reads
\* const rewards = [...] in getNextReward
rewards ==
    << [points |-> 50,  name |-> "Restaurant Finder"],
       [points |-> 100, name |-> "Hidden Gems Discovery"],
       [points |-> 200, name |-> "Local Food Specialties"],
       [points |-> 300, name |-> "Photography Spots"] >>

\* getNextReward: the first reward with currentPoints < reward.points, or
\* { name: 'All rewards unlocked!', pointsNeeded: 0 }
RECURSIVE NextRewardFrom(_, _)
NextRewardFrom(i, currentPoints) ==
    IF i > Len(rewards)
    THEN [name |-> "All rewards unlocked!", pointsNeeded |-> 0]
    ELSE IF currentPoints < rewards[i].points
         THEN [name |-> rewards[i].name,
               pointsNeeded |-> rewards[i].points - currentPoints]
         ELSE NextRewardFrom(i + 1, currentPoints)

\* the comparison of getNextReward written with <=
getNextRewardInclusive(currentPoints) ==
    LET S == {i \in 1..Len(rewards) : currentPoints <= rewards[i].points} IN
    IF S = {}
    THEN [name |-> "All rewards unlocked!", pointsNeeded |-> 0]
    ELSE LET i == CHOOSE i \in S : \A j \in S : i <= j
         IN  [name |-> rewards[i].name,
              pointsNeeded |-> rewards[i].points - currentPoints]

getNextReward(currentPoints) == NextRewardFrom(1, currentPoints)

\* userAchievements.map(a => a.achievementType) over
\* select().from(achievements).where(eq(achievements.userId, userId))
AchievementTypesOf(userId) ==
    LET rows == SelectSeq(achievements, LAMBDA r : r.userId = userId)
    IN  [k \in 1..Len(rows) |-> rows[k].achievementType]

\* getUserProgress, !user branch
UnseenProgress ==
    [points |-> 0, level |-> 1, achievements |-> <<>>,
     nextReward |-> [name |-> "Restaurant Finder", pointsNeeded |-> 50]]

\* getUserProgress, value returned for a user row read earlier
ProgressOf(user, userId) ==
    [points |-> OrDefault(user.totalPoints, 0),
     level |-> OrDefault(user.level, 1),
     achievements |-> AchievementTypesOf(userId),
     nextReward |-> getNextReward(OrDefault(user.totalPoints, 0))]

\* rewardRequirements[rewardType] of a type that is not a key: undefined
Undefined == -1

\* const rewardRequirements = {...} in the unlock_reward handler
rewardRequirements(rewardType) ==
    CASE rewardType = "restaurant_recommendations" -> 50
      [] rewardType = "hidden_gems" -> 100
      [] rewardType = "food_specialties" -> 200
      [] rewardType = "photography_spots" -> 300
      [] OTHER -> Undefined

\* generateRewardContent(rewardType).title (without the emoji)
generateRewardContent(rewardType) ==
    CASE rewardType = "restaurant_recommendations" -> "Premium Restaurant Finder"
      [] rewardType = "hidden_gems" -> "Hidden Gems Discovery"
      [] rewardType = "food_specialties" -> "Local Food Specialties Expert"
      [] rewardType = "photography_spots" -> "Photography Spots Master"
      [] OTHER -> "Unknown Reward"

\* the gate of unlock_reward written with <=
InsufficientPointsInclusive(points, requiredPoints) ==
    requiredPoints # Undefined /\ points <= requiredPoints

\* if (progress.points < requiredPoints); a comparison with undefined is false
InsufficientPoints(points, requiredPoints) ==
    requiredPoints # Undefined /\ points < requiredPoints

\* get_user_progress handler after getUserProgress:
\* return { success: true, userId, progress }
ProgressResponse(progress) ==
    [NoResponse EXCEPT !.success = TRUE, !.progress = progress]

\* unlock_reward reporting the deficit with the operands swapped
UnlockResponseSwapped(rewardType, progress) ==
    LET requiredPoints == rewardRequirements(rewardType) IN
    IF InsufficientPoints(progress.points, requiredPoints)
    THEN [NoResponse EXCEPT !.success = FALSE,
                            !.error = "Insufficient points",
                            !.requiredPoints = requiredPoints,
                            !.currentPoints = progress.points,
                            !.pointsNeeded = progress.points - requiredPoints]
    ELSE [NoResponse EXCEPT !.success = TRUE,
                            !.rewardContent = generateRewardContent(rewardType)]

\* unlock_reward handler after getUserProgress
UnlockResponse(rewardType, progress) ==
    LET requiredPoints == rewardRequirements(rewardType) IN
    IF InsufficientPoints(progress.points, requiredPoints)
    THEN [NoResponse EXCEPT !.success = FALSE,
                            !.error = "Insufficient points",
                            !.requiredPoints = requiredPoints,
                            !.currentPoints = progress.points,
                            !.pointsNeeded = requiredPoints - progress.points]
    ELSE [NoResponse EXCEPT !.success = TRUE,
                            !.rewardContent = generateRewardContent(rewardType)]

\* the handler that called getUserProgress continues with its value
AfterProgress(call, progress) ==
    [call EXCEPT !.pc = "responded",
                 !.response = IF call.tool = "unlock_reward"
                              THEN UnlockResponse(call.rewardType, progress)
                              ELSE ProgressResponse(progress)]

\* a handler that requires a user id and is given none: throw new
\* Error('User ID is required ...'), caught by the handler's own catch
RejectedResponse ==
    [NoResponse EXCEPT !.success = FALSE, !.error = "User ID is required"]

\* the get_user_progress handler is invoked; it calls getUserProgress
ProgressInvoke(c, userId) ==
    /\ calls[c].pc = "idle"
    /\ IF c = 1 THEN TRUE ELSE calls[c - 1].pc # "idle"
    /\ calls' = [calls EXCEPT ![c] =
                    [@ EXCEPT !.pc = IF NamedUser(userId)
                                     THEN "progress_select_user" ELSE "responded",
                              !.response = IF NamedUser(userId)
                                           THEN NoResponse ELSE RejectedResponse,
                              !.tool = "get_user_progress", !.userId = userId,
                              !.rowsAtStart = Len(achievements)]]
    /\ UNCHANGED <<users, achievements>>

\* the unlock_reward handler is invoked; it calls getUserProgress
UnlockInvoke(c, userId, rewardType) ==
    /\ calls[c].pc = "idle"
    /\ IF c = 1 THEN TRUE ELSE calls[c - 1].pc # "idle"
    /\ calls' = [calls EXCEPT ![c] =
                    [@ EXCEPT !.pc = IF NamedUser(userId)
                                     THEN "progress_select_user" ELSE "responded",
                              !.response = IF NamedUser(userId)
                                           THEN NoResponse ELSE RejectedResponse,
                              !.tool = "unlock_reward", !.userId = userId,
                              !.rewardType = rewardType,
                              !.rowsAtStart = Len(achievements)]]
    /\ UNCHANGED <<users, achievements>>

\* the get_saved_places or get_user_itineraries handler is invoked
ListInvoke(c, userId, tool) ==
    /\ calls[c].pc = "idle"
    /\ IF c = 1 THEN TRUE ELSE calls[c - 1].pc # "idle"
    /\ calls' = [calls EXCEPT ![c] =
                    [@ EXCEPT !.pc = IF NamedUser(userId)
                                     THEN "list_select" ELSE "responded",
                              !.response = IF NamedUser(userId)
                                           THEN NoResponse ELSE RejectedResponse,
                              !.tool = tool, !.userId = userId,
                              !.rowsAtStart = Len(achievements)]]
    /\ UNCHANGED <<users, achievements>>

\* the listing handler making sure of the user row first, as the awarding
\* handlers of the same file do
ListSelectEnsures(c) ==
    /\ calls[c].pc = "list_select"
    /\ calls' = [calls EXCEPT ![c] =
                    [@ EXCEPT !.pc = "responded",
                              !.response = [NoResponse EXCEPT !.success = TRUE]]]
    /\ users' = [users EXCEPT ![calls[c].userId] =
                    IF @ = NoUser
                    THEN [totalPoints |-> 0, level |-> 1,
                          email |-> EnsureEmail(calls[c].userId)]
                    ELSE @]
    /\ UNCHANGED achievements

\* get_saved_places: await db.select().from(events).where(eq(events.userId,
\* userId)); get_user_itineraries: the same on itineraries; then
\* return { success: true, ... }
ListSelect(c) ==
    /\ calls[c].pc = "list_select"
    /\ calls' = [calls EXCEPT ![c] =
                    [@ EXCEPT !.pc = "responded",
                              !.response = [NoResponse EXCEPT !.success = TRUE]]]
    /\ UNCHANGED <<users, achievements>>

\* getUserProgress creating the missing row the way ensureUserExists does
ProgressSelectUserCreates(c) ==
    /\ calls[c].pc = "progress_select_user"
    /\ LET user == users[calls[c].userId]
       IN  IF user = NoUser
           THEN /\ calls' = [calls EXCEPT ![c] = AfterProgress(@, UnseenProgress)]
                /\ users' = [users EXCEPT ![calls[c].userId] =
                                [totalPoints |-> 0, level |-> 1,
                                 email |-> EnsureEmail(calls[c].userId)]]
           ELSE /\ calls' = [calls EXCEPT ![c] =
                        [@ EXCEPT !.pc = "progress_select_achievements",
                                  !.user = user]]
                /\ UNCHANGED users
    /\ UNCHANGED achievements

\* getUserProgress: const user = await ...select().from(users)...get();
\* if (!user) return {points: 0, level: 1, achievements: [], nextReward: ...}
ProgressSelectUser(c) ==
    /\ calls[c].pc = "progress_select_user"
    /\ LET user == users[calls[c].userId]
       IN  IF user = NoUser
           THEN calls' = [calls EXCEPT ![c] = AfterProgress(@, UnseenProgress)]
           ELSE calls' = [calls EXCEPT ![c] =
                    [@ EXCEPT !.pc = "progress_select_achievements",
                              !.user = user]]
    /\ UNCHANGED <<users, achievements>>

\* getUserProgress: const userAchievements = await ...select()
\* .from(achievements).where(eq(achievements.userId, userId)); return {...}
ProgressSelectAchievements(c) ==
    /\ calls[c].pc = "progress_select_achievements"
    /\ calls' = [calls EXCEPT ![c] =
                    AfterProgress(@, ProgressOf(calls[c].user, calls[c].userId))]
    /\ UNCHANGED <<users, achievements>>

\* the reward types a caller passes to unlock_reward (the enum of its schema)
RewardTypes ==
    {"restaurant_recommendations", "hidden_gems", "food_specialties",
     "photography_spots"}

ReadStep(c) ==
    \/ ProgressSelectUser(c)
    \/ ProgressSelectAchievements(c)

Step(c) ==
    \/ EnsureSelectUser(c)
    \/ EnsureInsertUser(c)
    \/ AwardSelectUser(c)
    \/ AwardInsertUser(c)
    \/ AwardUpdateUser(c)
    \/ CheckSelectAchievement(c)
    \/ CheckInsertAchievement(c)

Next ==
    \E c \in Calls :
        \/ \E userId \in UserIds, points \in PointValues, ensure \in BOOLEAN :
                ToolInvoke(c, userId, points, ensure)
        \/ Step(c)

\* requests arrive in any order and overlap freely
Spec == Init /\ [][Next]_vars

\* a request that has not been made, has returned or has thrown
Ended(c) ==
    calls[c].pc \in {"idle", "done", "ensure_failed", "award_failed", "responded"}

\* requests that do not overlap: one is invoked only when no other is running
SeqNext ==
    \E c \in Calls :
        \/ \E userId \in UserIds, points \in PointValues, ensure \in BOOLEAN :
                /\ \A d \in Calls : Ended(d)
                /\ ToolInvoke(c, userId, points, ensure)
        \/ Step(c)

SeqSpec == Init /\ [][SeqNext]_vars

\* point values of the awards that precede the reads: 300 reaches the last
\* reward threshold
ReadPointValues == PointValues \cup {300}

\* awards, progress queries and reward unlocks that do not overlap; the awards
\* are direct calls of awardPoints
ReadNext ==
    \E c \in Calls :
        \/ /\ \A d \in Calls : Ended(d)
           /\ \/ \E userId \in UserIds, points \in ReadPointValues :
                    ToolInvoke(c, userId, points, FALSE)
              \/ \E userId \in UserIds : ProgressInvoke(c, userId)
              \/ \E userId \in UserIds, rewardType \in RewardTypes :
                    UnlockInvoke(c, userId, rewardType)
        \/ AwardSelectUser(c)
        \/ AwardInsertUser(c)
        \/ AwardUpdateUser(c)
        \/ CheckSelectAchievement(c)
        \/ CheckInsertAchievement(c)
        \/ ReadStep(c)

ReadSpec == Init /\ [][ReadNext]_vars

\* requests of one user that overlap in pairs: every request is for the user
\* of the first one, and one is invoked only while at most one other is running
PairNext ==
    \E c \in Calls :
        \/ \E userId \in UserIds, points \in PointValues, ensure \in BOOLEAN :
                /\ IF c = 1 THEN TRUE ELSE userId = calls[1].userId
                /\ Cardinality({d \in Calls : ~Ended(d)}) <= 1
                /\ ToolInvoke(c, userId, points, ensure)
        \/ Step(c)

PairSpec == Init /\ [][PairNext]_vars

\* the handlers documented as awarding no points
NoPointsTools ==
    {"get_user_progress", "unlock_reward", "get_saved_places",
     "get_user_itineraries"}

\* what a caller can pass as rewardType: the handler is called with the
\* arguments as they arrive, the enum of the schema is not enforced
AnyRewardTypes == RewardTypes \cup {"unknown_reward"}

\* direct awards and requests of the four handlers that award nothing, with
\* and without a user id, for the user of the first request; no two overlap
QueryNext ==
    \E c \in Calls :
        \/ /\ \A d \in Calls : Ended(d)
           /\ \/ \E userId \in UserIds, points \in PointValues :
                    /\ IF c = 1 THEN TRUE ELSE userId = calls[1].userId
                    /\ ToolInvoke(c, userId, points, FALSE)
              \/ \E userId \in AllUserIds :
                    /\ IF c = 1 THEN TRUE
                       ELSE userId \in {calls[1].userId, Anonymous}
                    /\ \/ ProgressInvoke(c, userId)
                       \/ \E rewardType \in AnyRewardTypes :
                            UnlockInvoke(c, userId, rewardType)
                       \/ \E tool \in {"get_saved_places", "get_user_itineraries"} :
                            ListInvoke(c, userId, tool)
        \/ AwardSelectUser(c)
        \/ AwardInsertUser(c)
        \/ AwardUpdateUser(c)
        \/ CheckSelectAchievement(c)
        \/ CheckInsertAchievement(c)
        \/ ReadStep(c)
        \/ ListSelect(c)

QuerySpec == Init /\ [][QueryNext]_vars

\* ------------------------------------------------------- invalid inputs
\* point values of direct calls of awardPoints, with values that are not
\* positive
ApiPointValues == PointValues \cup {0, -5}

\* direct calls of awardPoints that do not overlap
ApiNext ==
    \E c \in Calls :
        \/ \E userId \in UserIds, points \in ApiPointValues :
                /\ \A d \in Calls : Ended(d)
                /\ ToolInvoke(c, userId, points, FALSE)
        \/ AwardSelectUser(c)
        \/ AwardInsertUser(c)
        \/ AwardUpdateUser(c)
        \/ CheckSelectAchievement(c)
        \/ CheckInsertAchievement(c)

ApiSpec == Init /\ [][ApiNext]_vars

\* ----------------------------------------------------- storage failures
\* the most storage statements that fail in one run
MaxFailures == 1

\* the awaits of awardPoints and checkUnlockedRewards
AwardPcs ==
    {"award_select", "award_insert", "award_update", "check_select", "check_insert"}

\* every await on a storage statement
StoragePcs == AwardPcs \cup {"ensure_select", "ensure_insert", "primary_insert"}

\* the catch clause of awardPoints returns a result
AwardCatchReturns == "done"

\* awardPoints: catch (error) { throw new Error(`Failed to award points: ...`) };
\* checkUnlockedRewards has no catch of its own
AwardCatch == "award_failed"

\* where a request goes when the statement it awaits at pc rejects:
\* ensureUserExists and awardPoints rethrow, the insert of the handler throws
FailurePc(pc) ==
    CASE pc \in {"ensure_select", "ensure_insert"} -> "ensure_failed"
      [] pc = "primary_insert" -> "primary_failed"
      [] OTHER -> AwardCatch

\* the storage statement request c awaits rejects; failedAt keeps the
\* statement that failed
StorageFailure(c) ==
    /\ calls[c].pc \in StoragePcs
    /\ Cardinality({d \in Calls : calls[d].failedAt # ""}) < MaxFailures
    /\ calls' = [calls EXCEPT ![c] =
                    [@ EXCEPT !.pc = FailurePc(calls[c].pc),
                              !.failedAt = calls[c].pc]]
    /\ UNCHANGED <<users, achievements>>

\* direct calls of awardPoints that do not overlap, over a storage that can
\* fail
FailNext ==
    \E c \in Calls :
        \/ \E userId \in UserIds, points \in PointValues :
                /\ \A d \in Calls : Ended(d)
                /\ ToolInvoke(c, userId, points, FALSE)
        \/ AwardSelectUser(c)
        \/ AwardInsertUser(c)
        \/ AwardUpdateUser(c)
        \/ CheckSelectAchievement(c)
        \/ CheckInsertAchievement(c)
        \/ StorageFailure(c)

FailSpec == Init /\ [][FailNext]_vars

\* ----------------------------------------------------- unanswered calls
\* the awaits of getUserProgress
ProgressPcs == {"progress_select_user", "progress_select_achievements"}

\* The storage never settles the statement request c awaits.  No statement
\* is issued with a timeout or raced against a timer, so the request stays
\* at its await; failedAt keeps the statement.
StorageStall(c) ==
    /\ calls[c].pc \in AwardPcs \cup ProgressPcs
    /\ calls' = [calls EXCEPT ![c] =
                    [@ EXCEPT !.pc = "stalled", !.failedAt = calls[c].pc]]
    /\ UNCHANGED <<users, achievements>>

\* the continuation of request c after an await that has settled
LiveStep(c) ==
    \/ AwardSelectUser(c)
    \/ AwardInsertUser(c)
    \/ AwardUpdateUser(c)
    \/ CheckSelectAchievement(c)
    \/ CheckInsertAchievement(c)
    \/ ReadStep(c)

\* direct awards, progress queries and unlock requests that do not overlap,
\* over a storage that may leave a statement unanswered
LiveNext ==
    \E c \in Calls :
        \/ /\ \A d \in Calls : Ended(d)
           /\ \/ \E userId \in UserIds, points \in PointValues :
                    ToolInvoke(c, userId, points, FALSE)
              \/ \E userId \in UserIds : ProgressInvoke(c, userId)
              \/ \E userId \in UserIds, rewardType \in RewardTypes :
                    UnlockInvoke(c, userId, rewardType)
        \/ LiveStep(c)
        \/ StorageStall(c)

\* the event loop runs the continuation of every await that has settled;
\* nothing obliges a client to call or the storage to answer
LiveSpec ==
    /\ Init
    /\ [][LiveNext]_vars
    /\ \A c \in Calls : WF_vars(LiveStep(c))

\* ------------------------------------------------------- tool handlers
\* the twelve handlers that call awardPoints
AwardingTools ==
    {"get_weather", "compare_weather", "find_events", "save_event",
     "get_place_details", "add_expense", "get_live_exchange_rates",
     "convert_currency_live", "get_expense_summary", "create_itinerary",
     "optimize_itinerary", "get_itinerary_details"}

\* three of them, one of each shape: get_weather wraps ensureUserExists
\* and awardPoints in a try/catch of their own, create_itinerary calls
\* ensureUserExists, inserts its row and then awards, find_events awards
\* without ensureUserExists
HandlerTools == {"get_weather", "create_itinerary", "find_events"}

\* convert_currency_live awarding the 3 points of get_live_exchange_rates
ToolPointsCopied(tool) ==
    CASE tool = "get_weather" -> 5
      [] tool = "compare_weather" -> 10
      [] tool = "find_events" -> 10
      [] tool = "save_event" -> 15
      [] tool = "get_place_details" -> 5
      [] tool = "add_expense" -> 5
      [] tool = "get_live_exchange_rates" -> 3
      [] tool = "convert_currency_live" -> 3
      [] tool = "get_expense_summary" -> 10
      [] tool = "create_itinerary" -> 20
      [] tool = "optimize_itinerary" -> 15
      [] tool = "get_itinerary_details" -> 5
      [] OTHER -> 0

\* the points the handler passes to awardPoints
ToolPoints(tool) ==
    CASE tool = "get_weather" -> 5
      [] tool = "compare_weather" -> 10
      [] tool = "find_events" -> 10
      [] tool = "save_event" -> 15
      [] tool = "get_place_details" -> 5
      [] tool = "add_expense" -> 5
      [] tool = "get_live_exchange_rates" -> 3
      [] tool = "convert_currency_live" -> 2
      [] tool = "get_expense_summary" -> 10
      [] tool = "create_itinerary" -> 20
      [] tool = "optimize_itinerary" -> 15
      [] tool = "get_itinerary_details" -> 5
      [] OTHER -> 0

\* the handler calls ensureUserExists before awardPoints
EnsuresUser(tool) ==
    tool \in {"get_weather", "compare_weather", "add_expense",
              "get_live_exchange_rates", "convert_currency_live",
              "get_expense_summary", "create_itinerary"}

\* the handler has its own try/catch around the award
AwardGuarded(tool) == tool \in {"get_weather", "compare_weather"}

\* userId is optional and defaults to 'anonymous'
UserIdOptional(tool) ==
    tool \in {"get_weather", "compare_weather", "find_events",
              "get_place_details", "get_live_exchange_rates",
              "convert_currency_live"}

\* the primary effect writes or reads rows that reference users(id): the
\* destination and event of save_event, the itinerary of optimize_itinerary
\* and get_itinerary_details
NeedsUserRow(tool) ==
    tool \in {"save_event", "optimize_itinerary", "get_itinerary_details"}

\* A handler is invoked.  A handler that requires a user id throws at once
\* when there is none; add_expense and create_itinerary start with
\* ensureUserExists, the others with their primary effect.  totalAtStart
\* is history: the total stored when the request arrived.
HandlerInvoke(c, userId, tool) ==
    /\ calls[c].pc = "idle"
    /\ IF c = 1 THEN TRUE ELSE calls[c - 1].pc # "idle"
    /\ calls' = [calls EXCEPT ![c] =
                    [@ EXCEPT !.pc = IF ~NamedUser(userId) /\ ~UserIdOptional(tool)
                                     THEN "rejected"
                                     ELSE IF AfterEnsure([tool |-> tool]) = "primary_insert"
                                          THEN "ensure_select"
                                          ELSE "primary",
                              !.userId = userId, !.points = ToolPoints(tool),
                              !.tool = tool,
                              !.rowsAtStart = Len(achievements),
                              !.totalAtStart = StoredPoints(userId)]]
    /\ UNCHANGED <<users, achievements>>

\* convert_currency_live with fromCurrency === toCurrency: returns
\* {success: true, ..., message: 'Same currency - no conversion needed'}
\* before any await
ConvertSameCurrency(c, userId) ==
    /\ calls[c].pc = "idle"
    /\ IF c = 1 THEN TRUE ELSE calls[c - 1].pc # "idle"
    /\ calls' = [calls EXCEPT ![c] =
                    [@ EXCEPT !.pc = "responded",
                              !.userId = userId,
                              !.tool = "convert_currency_live",
                              !.rowsAtStart = Len(achievements),
                              !.totalAtStart = StoredPoints(userId),
                              !.response = [NoResponse EXCEPT !.success = TRUE]]]
    /\ UNCHANGED <<users, achievements>>

\* a failed primary effect is caught and the handler goes on to the award
PrimaryEffectIgnored(c) ==
    /\ calls[c].pc = "primary"
    /\ calls' = [calls EXCEPT ![c] =
            [@ EXCEPT !.primary = ~(NeedsUserRow(calls[c].tool)
                                    /\ users[calls[c].userId] = NoUser),
                      !.pc = IF ~NamedUser(calls[c].userId) THEN "no_award"
                             ELSE IF EnsuresUser(calls[c].tool)
                                  THEN "ensure_select"
                                  ELSE "award_select"]]
    /\ UNCHANGED <<users, achievements>>

\* The primary effect of a handler that does not start with
\* ensureUserExists: the external lookup, the reads, or the rows of
\* save_event and optimize_itinerary.  Rows that reference users(id) cannot
\* be written or found while the user has no row.  Then the handler ensures
\* the user, awards, or skips the award when no user is named.
PrimaryEffect(c) ==
    /\ calls[c].pc = "primary"
    /\ IF NeedsUserRow(calls[c].tool) /\ users[calls[c].userId] = NoUser
       THEN calls' = [calls EXCEPT ![c].pc = "primary_failed"]
       ELSE calls' = [calls EXCEPT ![c] =
                [@ EXCEPT !.primary = TRUE,
                          !.pc = IF ~NamedUser(calls[c].userId) THEN "no_award"
                                 ELSE IF EnsuresUser(calls[c].tool)
                                      THEN "ensure_select"
                                      ELSE "award_select"]]
    /\ UNCHANGED <<users, achievements>>

\* add_expense, create_itinerary: await db.insert(...).values({...}); the
\* row is kept with the request that inserted it
PrimaryInsert(c) ==
    /\ calls[c].pc = "primary_insert"
    /\ calls' = [calls EXCEPT ![c] =
                    [@ EXCEPT !.pc = "award_select", !.primary = TRUE]]
    /\ UNCHANGED <<users, achievements>>

\* the primary effect throws: the lookup fails, the row is not found or the
\* insert is rejected
PrimaryFails(c) ==
    /\ calls[c].pc \in {"primary", "primary_insert"}
    /\ Cardinality({d \in Calls : calls[d].failedAt # ""}) < MaxFailures
    /\ calls' = [calls EXCEPT ![c] =
                    [@ EXCEPT !.pc = "primary_failed",
                              !.failedAt = calls[c].pc]]
    /\ UNCHANGED <<users, achievements>>

\* error.message of what was thrown
ErrorMessage(pc) ==
    CASE pc = "award_failed" -> "Failed to award points"
      [] pc = "ensure_failed" -> "Failed to ensure user exists"
      [] pc = "rejected" -> "User ID is required"
      [] OTHER -> "primary action failed"

\* The response of the handler.  The outer catch returns success: false.
\* Without a named user the response has gamification: null.  get_weather
\* and compare_weather catch a failed ensureUserExists or awardPoints and
\* return success: true with gamification {pointsAwarded, newTotal: 0,
\* message}; the others return gamification {pointsAwarded, ...} only when
\* awardPoints returned.
HandlerResponse(call) ==
    IF call.pc \in {"rejected", "primary_failed"}
    THEN [NoResponse EXCEPT !.success = FALSE, !.error = ErrorMessage(call.pc)]
    ELSE IF call.pc = "no_award"
    THEN [NoResponse EXCEPT !.success = TRUE]
    ELSE IF AwardGuarded(call.tool)
    THEN [NoResponse EXCEPT !.success = TRUE,
                            !.gamification = TRUE,
                            !.pointsAwarded = ToolPoints(call.tool),
                            !.warning = IF call.pc = "done" THEN ""
                                        ELSE "points could not be awarded"]
    ELSE IF call.pc = "done"
         THEN [NoResponse EXCEPT !.success = TRUE,
                                 !.gamification = TRUE,
                                 !.pointsAwarded = ToolPoints(call.tool)]
         ELSE [NoResponse EXCEPT !.success = FALSE,
                                 !.error = ErrorMessage(call.pc)]

\* the handler returns
HandlerRespond(c) ==
    /\ calls[c].tool \in AwardingTools
    /\ calls[c].pc \in {"done", "award_failed", "ensure_failed", "primary_failed",
                        "no_award", "rejected"}
    /\ calls' = [calls EXCEPT ![c] =
                    [@ EXCEPT !.pc = "responded",
                              !.response = HandlerResponse(calls[c])]]
    /\ UNCHANGED <<users, achievements>>

\* handler requests that do not overlap; primary effects and storage
\* statements can fail
HandlerNext ==
    \E c \in Calls :
        \/ \E userId \in UserIds, tool \in HandlerTools :
                /\ \A d \in Calls : calls[d].pc \in {"idle", "responded"}
                /\ HandlerInvoke(c, userId, tool)
        \/ Step(c)
        \/ PrimaryEffect(c)
        \/ PrimaryInsert(c)
        \/ PrimaryFails(c)
        \/ StorageFailure(c)
        \/ HandlerRespond(c)

HandlerSpec == Init /\ [][HandlerNext]_vars

\* requests of the twelve awarding handlers, all for the user of the first
\* one, that do not overlap; primary effects can fail
ToolNext ==
    \E c \in Calls :
        \/ \E userId \in UserIds, tool \in AwardingTools :
                /\ IF c = 1 THEN TRUE ELSE userId = calls[1].userId
                /\ \A d \in Calls : calls[d].pc \in {"idle", "responded"}
                /\ HandlerInvoke(c, userId, tool)
        \/ \E userId \in UserIds :
                /\ IF c = 1 THEN TRUE ELSE userId = calls[1].userId
                /\ \A d \in Calls : calls[d].pc \in {"idle", "responded"}
                /\ ConvertSameCurrency(c, userId)
        \/ Step(c)
        \/ PrimaryEffect(c)
        \/ PrimaryInsert(c)
        \/ HandlerRespond(c)

ToolSpec == Init /\ [][ToolNext]_vars

\* what the awards of named users are worth in AnonSpec
AnonPointValues == {50}

\* requests of the twelve awarding handlers without a user id (userId missing,
\* '' or 'anonymous': the handlers test `userId && userId !== 'anonymous'`
\* or its negation, so the three are one case), between awards to named
\* users; no requests overlap
AnonNext ==
    \E c \in Calls :
        \/ \E userId \in UserIds, points \in AnonPointValues, ensure \in BOOLEAN :
                /\ \A d \in Calls : Ended(d)
                /\ ToolInvoke(c, userId, points, ensure)
        \/ \E tool \in AwardingTools :
                /\ \A d \in Calls : Ended(d)
                /\ HandlerInvoke(c, Anonymous, tool)
        \/ /\ \A d \in Calls : Ended(d)
           /\ ConvertSameCurrency(c, Anonymous)
        \/ Step(c)
        \/ PrimaryEffect(c)
        \/ HandlerRespond(c)

AnonSpec == Init /\ [][AnonNext]_vars

\* ---------------------------------------------------------------- properties
\* the requests made so far for user u
CallsOf(u) == {c \in Calls : calls[c].pc # "idle" /\ calls[c].userId = u}

\* the requests for user u whose awardPoints has returned a result
DoneCallsOf(u) == {c \in CallsOf(u) : calls[c].pc = "done"}

RECURSIVE SumPoints(_)
SumPoints(S) ==
    IF S = {} THEN 0
    ELSE LET c == CHOOSE x \in S : TRUE
         IN  calls[c].points + SumPoints(S \ {c})

\* C1 - No lost updates: when every Award made for a user found the user's
\* row in place (created with 0 points by ensureUserExists) and all of them
\* have returned successfully, however their statements interleaved, the
\* stored totalPoints is the total before them, 0, plus the sum of their points.
C1_NoLostUpdates ==
    \A u \in UserIds :
        (/\ CallsOf(u) # {}
         /\ \A c \in CallsOf(u) : calls[c].pc = "done" /\ ~calls[c].created)
        => users[u].totalPoints = 0 + SumPoints(CallsOf(u))

\* C2 - Achievement uniqueness: in every reachable state the achievements
\* table holds at most one row per (userId, achievementType).
C2_AchievementUniqueness ==
    \A i, j \in 1..Len(achievements) :
        (/\ achievements[i].userId = achievements[j].userId
         /\ achievements[i].achievementType = achievements[j].achievementType)
        => i = j

\* C3 - Concurrent first awards: when two or more Award calls for one user
\* id all found no row for it, then once they have ended there is a row for
\* that id and its totalPoints is the sum of the points of all of them.
C3_ConcurrentFirstAwards ==
    \A u \in UserIds :
        (/\ Cardinality(CallsOf(u)) >= 2
         /\ \A c \in CallsOf(u) :
                \/ calls[c].pc = "done" /\ calls[c].created
                \/ calls[c].pc = "award_failed")
        => /\ users[u] # NoUser
           /\ users[u].totalPoints = SumPoints(CallsOf(u))

\* C4, first half: whenever no request is running, the stored totalPoints of a
\* user equals the sum of the points of all Award calls made for that user.
QuiescentRunningSum ==
    (\A c \in Calls : Ended(c)) =>
        \A u \in UserIds :
            DoneCallsOf(u) # {} => users[u].totalPoints = SumPoints(DoneCallsOf(u))

\* C4, second half: in the step in which an Award call returns, the newTotal it
\* returns is the totalPoints stored at that moment.
ReturnedTotalIsStored ==
    \A c \in Calls :
        (calls[c].pc # "done" /\ calls'[c].pc = "done")
        => calls'[c].newTotal = users'[calls'[c].userId].totalPoints

\* C4 - Running sum: after any sequence of successful Award calls that do not
\* overlap, the stored totalPoints is the sum of all awarded points, and each
\* call returns as newTotal the totalPoints stored right after it.
C4_RunningSum == [](QuiescentRunningSum) /\ [][ReturnedTotalIsStored]_vars

\* three awards have been made one after the other to one user, two of them
\* to the row the first one created
C4_Witness ==
    \E u \in UserIds :
        /\ \A c \in Calls : calls[c].pc = "done" /\ calls[c].userId = u
        /\ \E c \in Calls : calls[c].created
        /\ users[u].totalPoints = SumPoints(Calls)
        /\ users[u].totalPoints > 110

\* C5 - totalPoints never decreases: no step, of any interleaving, replaces a
\* user's stored totalPoints by a smaller value, and it is never negative.
C5_TotalNeverDecreases ==
    [][\A u \in UserIds :
            users[u] # NoUser =>
                /\ users'[u] # NoUser
                /\ users'[u].totalPoints >= users[u].totalPoints
                /\ users'[u].totalPoints >= 0]_vars

\* C6 - Level consistency: once an Award call for a user has returned, whether
\* it created the row or updated it, the stored level is
\* floor(totalPoints / 50) + 1.
C6_LevelConsistency ==
    \A c \in Calls :
        calls[c].pc = "done" =>
            users[calls[c].userId].level
                = (users[calls[c].userId].totalPoints \div 50) + 1

\* C7 - levelsGained: an Award on an existing user returns
\* levelOf(oldTotal + points) - levelOf(oldTotal), which is never negative.
C7_LevelsGained ==
    \A c \in Calls :
        (calls[c].pc = "done" /\ ~calls[c].created) =>
            /\ calls[c].levelsGained
                  = (((calls[c].oldTotal + calls[c].points) \div 50) + 1)
                    - ((calls[c].oldTotal \div 50) + 1)
            /\ calls[c].levelsGained >= 0

\* C8 - First award: the step in which an Award call creates the user row
\* writes totalPoints = points and level = levelOf(points), returns
\* {newTotal: points, levelsGained: 0, unlockedRewards: []} and inserts no
\* achievement row.
C8_FirstAwardCreates ==
    [][\A c \in Calls :
            (calls[c].pc = "award_insert" /\ calls'[c].pc = "done") =>
                /\ users'[calls[c].userId].totalPoints = calls[c].points
                /\ users'[calls[c].userId].level = (calls[c].points \div 50) + 1
                /\ calls'[c].newTotal = calls[c].points
                /\ calls'[c].levelsGained = 0
                /\ calls'[c].newlyUnlocked = <<>>
                /\ achievements' = achievements]_vars

\* the achievement row that request c inserted for reward type t, if any
InsertedBy(c, t) ==
    {k \in 1..Len(achievements) : achievements[k].id = <<c, t>>}

\* some request other than c has inserted a row for (u, t)
RecordedByOther(c, u, t) ==
    \E k \in 1..Len(achievements) :
        /\ achievements[k].userId = u
        /\ achievements[k].achievementType = t
        /\ achievements[k].id[1] # c

\* the display names of the rewards from index i on for which request c
\* inserted a row, in catalog order
RECURSIVE NamesInsertedBy(_, _)
NamesInsertedBy(c, i) ==
    IF i > NumRewards THEN <<>>
    ELSE IF InsertedBy(c, rewardThresholds[i].type) # {}
         THEN <<rewardThresholds[i].name>> \o NamesInsertedBy(c, i + 1)
         ELSE NamesInsertedBy(c, i + 1)

\* C9 - Threshold crossing: an Award on an existing user (the calls do not
\* overlap) inserts an achievement row, with pointsRequired = threshold, for
\* exactly the catalog entries with oldTotal < threshold <= newTotal for which
\* the user had no row, and returns exactly the names of the entries it
\* inserted, in ascending threshold order.
C9_ThresholdCrossing ==
    \A c \in Calls :
        (calls[c].pc = "done" /\ ~calls[c].created) =>
            /\ \A i \in 1..NumRewards :
                  LET e == rewardThresholds[i] IN
                  /\ InsertedBy(c, e.type) # {}
                        <=> /\ calls[c].oldTotal < e.points
                            /\ e.points <= calls[c].newTotal
                            /\ ~RecordedByOther(c, calls[c].userId, e.type)
                  /\ \A k \in InsertedBy(c, e.type) :
                        /\ achievements[k].userId = calls[c].userId
                        /\ achievements[k].pointsRequired = e.points
            /\ calls[c].newlyUnlocked = NamesInsertedBy(c, 1)

\* C10 - Achievement-set invariant: when no request is running, a user for
\* whom an Award has succeeded holds exactly the achievement types whose
\* threshold is at most the user's totalPoints.
C10_AchievementSet ==
    (\A c \in Calls : Ended(c)) =>
        \A u \in UserIds :
            DoneCallsOf(u) # {} =>
                {achievements[k].achievementType :
                    k \in {j \in 1..Len(achievements) : achievements[j].userId = u}}
                = {rewardThresholds[i].type :
                    i \in {j \in 1..NumRewards :
                            rewardThresholds[j].points <= users[u].totalPoints}}

\* the rows of (u, t) that existed when request c arrived
RowsBefore(c, u, t) ==
    {k \in 1..Len(achievements) :
        /\ k <= calls[c].rowsAtStart
        /\ achievements[k].userId = u
        /\ achievements[k].achievementType = t}

\* the elements of a sequence
Range(seq) == {seq[k] : k \in 1..Len(seq)}

\* C11 - Idempotent unlock: an Award call that arrives when an achievement row
\* for (user, type) exists never inserts another row of that type for that
\* user and never returns that type's display name in unlockedRewards.
C11_IdempotentUnlock ==
    \A c \in Calls : \A i \in 1..NumRewards :
        LET e == rewardThresholds[i] IN
        (calls[c].pc # "idle" /\ RowsBefore(c, calls[c].userId, e.type) # {}) =>
            /\ InsertedBy(c, e.type) = {}
            /\ e.name \notin Range(calls[c].newlyUnlocked)

\* an award that arrived after the row existed has crossed the same threshold
\* again (an overlapping award had overwritten the total with a smaller one)
\* and has returned without inserting or announcing it
C11_Witness ==
    \E c \in Calls : \E i \in 1..NumRewards :
        LET e == rewardThresholds[i] IN
        /\ calls[c].pc = "done" /\ ~calls[c].created
        /\ calls[c].oldTotal < e.points /\ e.points <= calls[c].newTotal
        /\ RowsBefore(c, calls[c].userId, e.type) # {}
        /\ InsertedBy(c, e.type) = {}
        /\ calls[c].newlyUnlocked = <<>>

\* the catalog threshold of an achievement type
ThresholdOf(t) ==
    LET i == CHOOSE j \in 1..NumRewards : rewardThresholds[j].type = t
    IN  rewardThresholds[i].points

\* C12 - No unearned achievements: in every reachable state, between the
\* steps of overlapping Award calls too, every achievement row belongs to a
\* user whose stored totalPoints is at least the threshold of the row's type.
C12_NoUnearnedAchievements ==
    \A k \in 1..Len(achievements) :
        /\ users[achievements[k].userId] # NoUser
        /\ users[achievements[k].userId].totalPoints
              >= ThresholdOf(achievements[k].achievementType)

\* the achievement rows of the users other than u, in table order
RowsOfOthers(rows, u) == SelectSeq(rows, LAMBDA r : r.userId # u)

\* C13 - Per-user isolation: the existence check of an Award for u answers
\* "no row" exactly when u has no row of the type, whatever other users
\* hold, and no step of a request for u changes another user's row or
\* achievements.
C13_PerUserIsolation ==
    [][\A c \in Calls :
            calls'[c] # calls[c] =>
                LET u == calls'[c].userId IN
                /\ calls[c].pc = "check_select" =>
                      (calls'[c].pc = "check_insert"
                          <=> ~\E k \in 1..Len(achievements) :
                                  /\ achievements[k].userId = u
                                  /\ achievements[k].achievementType
                                        = rewardThresholds[calls[c].idx].type)
                /\ \A v \in UserIds \ {u} : users'[v] = users[v]
                /\ RowsOfOthers(achievements', u) = RowsOfOthers(achievements, u)]_vars

\* request c returns its response in this step
RespondsNow(c) == calls[c].pc # "responded" /\ calls'[c].pc = "responded"

\* this step is a step of request c, made by tool t
StepOf(c, t) == calls'[c] # calls[c] /\ calls'[c].tool = t

\* C14 - GetProgress is read-only: no step of a get_user_progress request
\* creates or changes a user or achievement row, and for a user id without a
\* row it returns {points: 0, level: 1, achievements: [], nextReward:
\* {name: "Restaurant Finder", pointsNeeded: 50}}.
C14_GetProgressReadOnly ==
    [][\A c \in Calls :
            StepOf(c, "get_user_progress") =>
                /\ users' = users
                /\ achievements' = achievements
                /\ (RespondsNow(c) /\ users[calls[c].userId] = NoUser) =>
                      /\ calls'[c].response.success
                      /\ calls'[c].response.progress
                            = [points |-> 0, level |-> 1, achievements |-> <<>>,
                               nextReward |-> [name |-> "Restaurant Finder",
                                               pointsNeeded |-> 50]]]_vars

\* a progress query for a user id without a row has answered and there is
\* still no row; another user has a row
C14_Witness ==
    \E c \in Calls :
        /\ calls[c].tool = "get_user_progress"
        /\ calls[c].pc = "responded"
        /\ calls[c].response.success
        /\ calls[c].response.progress.points = 0
        /\ users[calls[c].userId] = NoUser
        /\ \E v \in UserIds : users[v] # NoUser

\* the catalog entries for which u has no achievement row
NotRecorded(u) ==
    {i \in 1..NumRewards :
        ~\E k \in 1..Len(achievements) :
            /\ achievements[k].userId = u
            /\ achievements[k].achievementType = rewardThresholds[i].type}

\* the catalog entries whose threshold is above p
Above(p) == {i \in 1..NumRewards : rewardThresholds[i].points > p}

\* the smallest element of a non-empty set of indices
Lowest(S) == CHOOSE i \in S : \A j \in S : i <= j

\* C15 as stated - nextReward of GetProgress is the lowest-threshold catalog
\* entry for which the user has no achievement row, with pointsNeeded =
\* threshold - totalPoints; {name: "All rewards unlocked", pointsNeeded: 0}
\* when the user has a row for all four.
C15_NextRewardByRecords ==
    [][\A c \in Calls :
            (StepOf(c, "get_user_progress") /\ RespondsNow(c)) =>
                LET u == calls[c].userId
                    next == calls'[c].response.progress.nextReward
                IN  IF NotRecorded(u) = {}
                    THEN next = [name |-> "All rewards unlocked", pointsNeeded |-> 0]
                    ELSE LET e == rewardThresholds[Lowest(NotRecorded(u))]
                         IN  next = [name |-> e.name,
                                     pointsNeeded |-> e.points - StoredPoints(u)]]_vars

\* C15 as amended - nextReward of GetProgress is the lowest-threshold catalog
\* entry whose threshold is greater than the user's totalPoints, whether or
\* not achievement rows exist, with pointsNeeded = threshold - totalPoints;
\* it is {name: "All rewards unlocked!", pointsNeeded: 0} when totalPoints is
\* at least the highest threshold.
C15_NextRewardByPoints ==
    [][\A c \in Calls :
            (StepOf(c, "get_user_progress") /\ RespondsNow(c)) =>
                LET p == StoredPoints(calls[c].userId)
                    next == calls'[c].response.progress.nextReward
                IN  IF Above(p) = {}
                    THEN next = [name |-> "All rewards unlocked!", pointsNeeded |-> 0]
                    ELSE LET e == rewardThresholds[Lowest(Above(p))]
                         IN  next = [name |-> e.name,
                                     pointsNeeded |-> e.points - p]]_vars

\* a progress query has answered for a user at exactly 50 points who has no
\* achievement row, naming the 100-point reward
C15_Witness ==
    \E c \in Calls :
        /\ calls[c].tool = "get_user_progress"
        /\ calls[c].pc = "responded"
        /\ calls[c].response.progress.points = 50
        /\ calls[c].response.progress.achievements = <<>>
        /\ calls[c].response.progress.nextReward
              = [name |-> "Hidden Gems Discovery", pointsNeeded |-> 50]

\* a progress query has answered for a user with 300 points or more
C15_WitnessAll ==
    \E c \in Calls :
        /\ calls[c].tool = "get_user_progress"
        /\ calls[c].pc = "responded"
        /\ calls[c].response.progress.points >= 300
        /\ calls[c].response.progress.nextReward.name = "All rewards unlocked!"

\* C16 - UnlockReward with too few points: when the threshold of the reward
\* type exceeds the user's totalPoints the request fails with "Insufficient
\* points", required = threshold, current = totalPoints and deficit =
\* threshold - totalPoints, and no step of it changes a user or achievement row.
C16_UnlockInsufficient ==
    [][\A c \in Calls :
            StepOf(c, "unlock_reward") =>
                /\ users' = users
                /\ achievements' = achievements
                /\ LET p == StoredPoints(calls[c].userId)
                       required == ThresholdOf(calls[c].rewardType)
                   IN  (RespondsNow(c) /\ required > p) =>
                          /\ ~calls'[c].response.success
                          /\ calls'[c].response.error = "Insufficient points"
                          /\ calls'[c].response.requiredPoints = required
                          /\ calls'[c].response.currentPoints = p
                          /\ calls'[c].response.pointsNeeded = required - p]_vars

\* an unlock request of a user who has a row and some points has been refused
C16_Witness ==
    \E c \in Calls :
        /\ calls[c].tool = "unlock_reward"
        /\ calls[c].pc = "responded"
        /\ ~calls[c].response.success
        /\ calls[c].response.currentPoints > 0
        /\ calls[c].response.pointsNeeded > 0
        /\ calls[c].response.requiredPoints
              = calls[c].response.currentPoints + calls[c].response.pointsNeeded

\* C17 - UnlockReward succeeds exactly when the user's totalPoints is at least
\* the threshold of the reward type, whether or not an achievement row for
\* (user, type) exists; a successful request returns the reward content and
\* its steps add no points and write no user or achievement row.
C17_UnlockByPoints ==
    [][\A c \in Calls :
            (StepOf(c, "unlock_reward") /\ RespondsNow(c)) =>
                /\ calls'[c].response.success
                      <=> StoredPoints(calls[c].userId)
                              >= ThresholdOf(calls[c].rewardType)
                /\ calls'[c].response.success =>
                      /\ calls'[c].response.rewardContent # ""
                      /\ users' = users
                      /\ achievements' = achievements]_vars

\* an unlock request has succeeded for a user at exactly the threshold who
\* has no achievement row of the type
C17_Witness ==
    \E c \in Calls :
        /\ calls[c].tool = "unlock_reward"
        /\ calls[c].pc = "responded"
        /\ calls[c].response.success
        /\ StoredPoints(calls[c].userId) = ThresholdOf(calls[c].rewardType)
        /\ ~\E k \in 1..Len(achievements) :
              /\ achievements[k].userId = calls[c].userId
              /\ achievements[k].achievementType = calls[c].rewardType

\* C18 - Input validation: an award with a points value that is not positive
\* is rejected before any write: it never returns a result and no step of it
\* changes a user or achievement row.
C18_InputValidation ==
    /\ [](\A c \in Calls : calls[c].pc = "done" => calls[c].points > 0)
    /\ [][\A c \in Calls :
            (calls'[c] # calls[c] /\ calls'[c].points <= 0) =>
                /\ users' = users
                /\ achievements' = achievements]_vars

\* C19 - A storage read or write that fails during an award (user select,
\* user insert, user update, achievement select, achievement insert) ends the
\* call with an error: the call never returns a result.
C19_StorageFailureIsError ==
    \A c \in Calls :
        calls[c].failedAt \in AwardPcs => calls[c].pc = "award_failed"

\* an award has failed at the achievement insert after its user update was
\* written: the points are stored, the achievement row is not
C19_Witness ==
    \E c \in Calls :
        /\ calls[c].failedAt = "check_insert"
        /\ calls[c].pc = "award_failed"
        /\ users[calls[c].userId].totalPoints = calls[c].newTotal
        /\ ~\E k \in 1..Len(achievements) : achievements[k].id[1] = c

\* C20 - Degrade gracefully: when the primary action of a points-awarding
\* handler has succeeded and the award that follows fails, the handler returns
\* a successful response with the award failure attached as a warning.
C20_DegradeGracefully ==
    \A c \in Calls :
        (/\ calls[c].tool \in HandlerTools
         /\ calls[c].pc = "responded"
         /\ calls[c].primary
         /\ calls[c].failedAt \in AwardPcs) =>
            /\ calls[c].response.success
            /\ calls[c].response.warning # ""

\* the fixed value documented for each points-awarding tool
DocumentedPoints(tool) ==
    CASE tool \in {"get_weather", "get_place_details", "add_expense",
                   "get_itinerary_details"} -> 5
      [] tool \in {"compare_weather", "find_events", "get_expense_summary"} -> 10
      [] tool \in {"save_event", "optimize_itinerary"} -> 15
      [] tool = "get_live_exchange_rates" -> 3
      [] tool = "convert_currency_live" -> 2
      [] tool = "create_itinerary" -> 20

C24_AwardAfterPrimary ==
    [][\A c \in Calls :
            (calls'[c] # calls[c] /\ calls'[c].tool \in AwardingTools) =>
                LET u == calls'[c].userId
                    after == IF users'[u] = NoUser THEN 0 ELSE users'[u].totalPoints
                IN  /\ calls'[c].pc \in AwardPcs => calls'[c].primary
                    /\ after # StoredPoints(u) => calls[c].primary
                    /\ (RespondsNow(c) /\ ~calls[c].primary) =>
                          /\ ~calls'[c].response.gamification
                          /\ StoredPoints(u) = calls'[c].totalAtStart]_vars

\* save_event has failed for a user without a row, who still has none, and
\* an add_expense of another request was awarded after its row was inserted
C24_Witness ==
    \E c, d \in Calls :
        /\ calls[c].tool = "save_event"
        /\ calls[c].pc = "responded"
        /\ ~calls[c].primary
        /\ ~calls[c].response.success
        /\ calls[c].totalAtStart = 0
        /\ calls[d].tool = "add_expense"
        /\ calls[d].pc = "responded"
        /\ calls[d].primary
        /\ calls[d].response.pointsAwarded = 5

\* C22 - The tools documented as awarding no points (get_user_progress,
\* unlock_reward, get_saved_places, get_user_itineraries): no step of a
\* request of one of them changes a user row or an achievement row, whatever
\* its arguments and its outcome.
C22_NoPointsToolsWriteNothing ==
    [][\A c \in Calls :
            (calls'[c] # calls[c] /\ calls'[c].tool \in NoPointsTools) =>
                /\ users' = users
                /\ achievements' = achievements]_vars

\* get_saved_places has answered for a named user who has no row, and a
\* request of another of the four tools was refused for want of a user id
C22_Witness ==
    \E c, d \in Calls :
        /\ calls[c].tool = "get_saved_places"
        /\ calls[c].pc = "responded"
        /\ calls[c].response.success
        /\ NamedUser(calls[c].userId)
        /\ users[calls[c].userId] = NoUser
        /\ calls[d].tool \in NoPointsTools \ {"get_saved_places"}
        /\ calls[d].pc = "responded"
        /\ ~NamedUser(calls[d].userId)
        /\ ~calls[d].response.success

\* C30 - UnlockReward answers with success only when rewardType is one of
\* the four catalog types and the user's totalPoints is at least the
\* threshold of that type.
C30_UnlockOnlyCatalogTypes ==
    [][\A c \in Calls :
            (/\ RespondsNow(c)
             /\ calls'[c].tool = "unlock_reward"
             /\ calls'[c].response.success) =>
                /\ calls'[c].rewardType \in RewardTypes
                /\ StoredPoints(calls'[c].userId) >= ThresholdOf(calls'[c].rewardType)]_vars

\* C23 - No operation blocks indefinitely: every Award, GetProgress and
\* UnlockReward call that has started eventually returns a result or an
\* error, also when a storage statement is never answered.
C23_NoBlocking ==
    \A c \in Calls :
        (calls[c].pc # "idle")
            ~> (calls[c].pc \in {"done", "award_failed", "responded"})

\* C25 - A tool handler does not assume points were awarded when the award
\* returned an error: a response reports a positive pointsAwarded only if
\* no statement of that invocation's ensureUserExists and awardPoints failed
\* and the stored totalPoints of the user grew by that amount.
C25_ReportedOnlyIfAwarded ==
    \A c \in Calls :
        (/\ calls[c].tool \in HandlerTools
         /\ calls[c].pc = "responded"
         /\ calls[c].response.pointsAwarded > 0) =>
            /\ calls[c].failedAt = ""
            /\ StoredPoints(calls[c].userId)
                 >= calls[c].totalAtStart + calls[c].response.pointsAwarded

\* C26 - Under-reporting of achievements is transient: when an award for a
\* user who already has a row returns a result, every catalog threshold the
\* user's total had reached before that award has its achievement record,
\* so a record that was missing (for instance because its insert failed
\* after the points were persisted) has been created by the later award.
C26_LaterAwardRepairs ==
    [][\A c \in Calls :
          (/\ calls[c].pc # "done"
           /\ calls'[c].pc = "done"
           /\ ~calls'[c].created) =>
              \A i \in 1..NumRewards :
                  rewardThresholds[i].points <= calls'[c].oldTotal =>
                      \E k \in 1..Len(achievements') :
                          /\ achievements'[k].userId = calls'[c].userId
                          /\ achievements'[k].achievementType
                               = rewardThresholds[i].type]_vars

\* the display names in the unlockedRewards request c has returned
ReturnedNames(c) ==
    IF calls[c].pc = "done"
    THEN {calls[c].newlyUnlocked[k] : k \in 1..Len(calls[c].newlyUnlocked)}
    ELSE {}

\* C27 - Each reward is announced once: among the Award calls for one user,
\* overlapping or not, a display name is in the returned unlockedRewards of
\* at most one call, and every returned name belongs to an achievement row
\* that the same call inserted.
C27_AnnouncedOnce ==
    /\ \A c, d \in Calls :
          (c # d /\ calls[c].userId = calls[d].userId) =>
              ReturnedNames(c) \cap ReturnedNames(d) = {}
    /\ \A c \in Calls :
          \A i \in 1..NumRewards :
              rewardThresholds[i].name \in ReturnedNames(c) =>
                  \E k \in 1..Len(achievements) :
                      /\ achievements[k].id = <<c, rewardThresholds[i].type>>
                      /\ achievements[k].userId = calls[c].userId

\* C28 - Anonymous calls leave the ledger untouched: no step of a handler
\* request without a user id changes a user or achievement row or reaches a
\* statement of ensureUserExists or awardPoints, no row is ever stored for
\* the anonymous id, a handler with an optional userId answers with
\* gamification null, and a handler that requires one answers with an error;
\* neither reports points.
C28_AnonymousLeavesLedger ==
    /\ [](users[Anonymous] = NoUser)
    /\ [][\A c \in Calls :
            (/\ calls'[c] # calls[c]
             /\ calls'[c].tool \in AwardingTools
             /\ calls'[c].userId = Anonymous) =>
                /\ UNCHANGED <<users, achievements>>
                /\ calls'[c].pc \notin StoragePcs
                /\ RespondsNow(c) =>
                      /\ ~calls'[c].response.gamification
                      /\ calls'[c].response.pointsAwarded = 0
                      /\ calls'[c].response.success
                           <=> UserIdOptional(calls'[c].tool)]_vars

\* an optional-userId handler and a handler that requires a user id have
\* both answered anonymous requests while a named user has points
C28_Witness ==
    \E c, d \in Calls :
        /\ calls[c].userId = Anonymous /\ calls[d].userId = Anonymous
        /\ calls[c].pc = "responded" /\ calls[d].pc = "responded"
        /\ calls[c].tool = "find_events" /\ calls[c].response.success
        /\ calls[d].tool = "add_expense" /\ ~calls[d].response.success
        /\ \E u \in UserIds : StoredPoints(u) > 0

\* C29 - Lazy creation of a user record succeeds whatever other user ids
\* have records: when no request overlaps and the storage rejects nothing
\* but constraint violations, the insert of a users row for an id without a
\* row, by awardPoints or by ensureUserExists, stores the row.
C29_CreationIndependent ==
    [][\A c \in Calls :
          (/\ calls[c].pc \in {"award_insert", "ensure_insert"}
           /\ calls'[c].pc # calls[c].pc
           /\ users[calls[c].userId] = NoUser) =>
              users'[calls[c].userId] # NoUser]_vars

====
